---- MODULE Spec2Model ----
(***************************************************************************)
(* Model of xv6-labs/kernel/syscall.c: the system-call dispatcher          *)
(* syscall(), its trace output, and the argument-marshaling helpers        *)
(* fetchaddr, fetchstr, argraw, argint, argaddr, argstr.                   *)
(*                                                                         *)
(* A uint64 is a tuple of four 16-bit limbs, most significant first, so    *)
(* that every 64-bit value keeps its full width; an int is a TLA+ integer  *)
(* in -2^31 .. 2^31-1.                                                     *)
(***************************************************************************)
EXTENDS Integers, Sequences, FiniteSets, TLC

\* ------------------------------------------------------------------ bounds

\* Number of processes that may be trapped at once.
NProcs == 2
\* Number of mapped bytes of user memory (addresses 0 .. MemLen-1).
MemLen == 8
\* Largest `max` a caller hands to argstr.
MaxMax == 3

Procs == 1..NProcs

\* ------------------------------------------------------------ 64-bit words

LimbBase == 65536

\* The uint64 holding the small number n (0 <= n < 2^31).
U64(n) == <<0, 0, n \div LimbBase, n % LimbBase>>

Zero == U64(0)
U64Max == <<LimbBase - 1, LimbBase - 1, LimbBase - 1, LimbBase - 1>>

\* Unsigned comparison x < y.
U64Lt(x, y) ==
  \/ x[1] < y[1]
  \/ x[1] = y[1] /\ x[2] < y[2]
  \/ x[1] = y[1] /\ x[2] = y[2] /\ x[3] < y[3]
  \/ x[1] = y[1] /\ x[2] = y[2] /\ x[3] = y[3] /\ x[4] < y[4]

U64Le(x, y) == x = y \/ U64Lt(x, y)

\* x + k modulo 2^64, for 0 <= k < LimbBase (uint64 addition wraps).
U64Add(x, k) ==
  LET s4 == x[4] + k
      s3 == x[3] + (s4 \div LimbBase)
      s2 == x[2] + (s3 \div LimbBase)
      s1 == x[1] + (s2 \div LimbBase)
  IN  <<s1 % LimbBase, s2 % LimbBase, s3 % LimbBase, s4 % LimbBase>>

\* C conversion uint64 -> int: the low 32 bits, read as two's complement.
ToInt(x) ==
  IF x[3] >= LimbBase \div 2
    THEN (x[3] - LimbBase) * LimbBase + x[4]
    ELSE x[3] * LimbBase + x[4]

\* C conversion int -> uint64: sign extension.
IntToU64(i) ==
  IF i >= 0
    THEN U64(i)
    ELSE LET m == (i + 2147483647) + 1
         IN  <<LimbBase - 1, LimbBase - 1,
               (m \div LimbBase) + LimbBase \div 2, m % LimbBase>>

\* ---------------------------------------------------------------- registry

\* syscall_names[num - 1] is the display name of call num; the position of a
\* name in this table is the number syscall.h gives the call.
syscall_names ==
  << "fork", "exit", "wait", "pipe", "read", "kill", "exec", "fstat", "chdir",
     "dup", "getpid", "sbrk", "sleep", "uptime", "open", "write", "mknod",
     "unlink", "link", "mkdir", "close", "trace", "sysinfo" >>

\* SYS_<name>.
SYS(name) == CHOOSE i \in 1..Len(syscall_names) : syscall_names[i] = name

\* The designated initializers of syscalls[].
syscalls_init ==
  << <<SYS("fork"), "sys_fork">>,     <<SYS("exit"), "sys_exit">>,
     <<SYS("wait"), "sys_wait">>,     <<SYS("pipe"), "sys_pipe">>,
     <<SYS("read"), "sys_read">>,     <<SYS("kill"), "sys_kill">>,
     <<SYS("exec"), "sys_exec">>,     <<SYS("fstat"), "sys_fstat">>,
     <<SYS("chdir"), "sys_chdir">>,   <<SYS("dup"), "sys_dup">>,
     <<SYS("getpid"), "sys_getpid">>, <<SYS("sbrk"), "sys_sbrk">>,
     <<SYS("sleep"), "sys_sleep">>,   <<SYS("uptime"), "sys_uptime">>,
     <<SYS("open"), "sys_open">>,     <<SYS("write"), "sys_write">>,
     <<SYS("mknod"), "sys_mknod">>,   <<SYS("unlink"), "sys_unlink">>,
     <<SYS("link"), "sys_link">>,     <<SYS("mkdir"), "sys_mkdir">>,
     <<SYS("close"), "sys_close">>,   <<SYS("trace"), "sys_trace">>,
     <<SYS("sysinfo"), "sys_sysinfo">> >>

\* The null function pointer of a slot no initializer names.
NoHandler == "0"

\* NELEM(syscalls): one more than the largest designated index.
NELEM_syscalls ==
  1 + (CHOOSE m \in {syscalls_init[k][1] : k \in 1..Len(syscalls_init)} :
         \A k \in 1..Len(syscalls_init) : syscalls_init[k][1] <= m)

\* The table itself: slot i holds the handler designated for i, or null.
syscalls ==
  [i \in 0..(NELEM_syscalls - 1) |->
     IF \E k \in 1..Len(syscalls_init) : syscalls_init[k][1] = i
       THEN syscalls_init[CHOOSE k \in 1..Len(syscalls_init) :
                            syscalls_init[k][1] = i][2]
       ELSE NoHandler]

\* syscall_arg_count[]: one element per index up to the largest designated
\* one, SYS_sysinfo; element 0, which no initializer names, is zero.
syscall_arg_count ==
  [n \in 0..SYS("sysinfo") |->
     CASE n = 0 -> 0
       [] n \in {SYS("fork"), SYS("getpid"), SYS("uptime"), SYS("sysinfo")} -> 0
       [] n \in {SYS("exec"), SYS("fstat"), SYS("open"), SYS("link")} -> 2
       [] n \in {SYS("read"), SYS("write"), SYS("mknod")} -> 3
       [] OTHER -> 1]

\* ------------------------------------------------------------------- state

VARIABLES
  pc,          \* per process: where its dispatch stands
  trapframe,   \* per process: the saved registers a0..a5, a7
  trace_mask,  \* per process: p->trace_mask
  args_list,   \* per process: syscall()'s local args_list
  num,         \* per process: syscall()'s local num
  return_val,  \* per process: syscall()'s local return_val
  argcall,     \* per process: how many argument printf calls of the
               \* switch of syscall() are behind it
  console,     \* the one console: every piece printed, with who printed it
  h,           \* per process: what happened in this trap (history)
  usz,         \* p->sz of the process the marshaling calls run for
  umem,        \* its mapped user memory, one byte per element
  call         \* the last marshaling call and what it did

vars == <<pc, trapframe, trace_mask, args_list, num, return_val, argcall,
          console, h, usz, umem, call>>

dispatch_vars ==
  <<pc, trace_mask, args_list, num, return_val, argcall, console, h>>

\* ---------------------------------------------------- argument marshaling

\* Whether the cross-space copy can reach the byte at user address va.
Mapped(va) == va[1] = 0 /\ va[2] = 0 /\ va[3] = 0 /\ va[4] < Len(umem)

ByteAt(va) == umem[va[4] + 1]

\* The uint64 stored little-endian in eight bytes.
WordOf(b) ==
  <<b[8] * 256 + b[7], b[6] * 256 + b[5], b[4] * 256 + b[3], b[2] * 256 + b[1]>>

\* copyin(pagetable, dst, srcva, len): 0 and the bytes when every byte of
\* [srcva, srcva+len) is mapped, -1 otherwise.
copyin(srcva, len) ==
  IF \A i \in 0..(len - 1) : Mapped(U64Add(srcva, i))
    THEN [ret |-> 0, data |-> [i \in 1..len |-> ByteAt(U64Add(srcva, i - 1))]]
    ELSE [ret |-> -1, data |-> <<>>]

\* sizeof(uint64).
SizeofU64 == 8

\* fetchaddr(addr, ip): ret is the return value, copied whether copyin was
\* called, written whether *ip was stored to, ip the value stored.
fetchaddr(addr) ==
  IF U64Le(usz, addr) \/ U64Lt(usz, U64Add(addr, SizeofU64))
    THEN [ret |-> -1, copied |-> FALSE, written |-> FALSE, ip |-> Zero]
    ELSE LET c == copyin(addr, SizeofU64)
         IN  IF c.ret # 0
               THEN [ret |-> -1, copied |-> TRUE, written |-> FALSE, ip |-> Zero]
               ELSE [ret |-> 0, copied |-> TRUE, written |-> TRUE,
                     ip |-> WordOf(c.data)]

\* copyinstr(pagetable, dst, srcva, max), max an unsigned 64-bit count:
\* copies bytes up to and including the first NUL; -1 when max bytes went
\* by without one or a byte is not mapped.  buf is what was stored into
\* dst, one element per byte read.
RECURSIVE copyinstr_from(_, _, _)
copyinstr_from(va, got, max) ==
  IF U64Le(max, U64(Len(got))) \/ ~Mapped(va)
    THEN [ret |-> -1, buf |-> got]
    ELSE IF ByteAt(va) = 0
      THEN [ret |-> 0, buf |-> Append(got, 0)]
      ELSE copyinstr_from(U64Add(va, 1), Append(got, ByteAt(va)), max)

copyinstr(srcva, max) == copyinstr_from(srcva, <<>>, max)

\* strlen(s): the number of bytes before the first NUL.
strlen(s) ==
  (CHOOSE i \in 1..Len(s) : s[i] = 0 /\ \A j \in 1..(i - 1) : s[j] # 0) - 1

\* A plausible slip: the length counted with its terminator.
fetchstr_with_nul(addr, max) ==
  LET c == copyinstr(addr, IntToU64(max))
  IN  IF c.ret < 0 THEN [ret |-> -1, buf |-> c.buf]
                   ELSE [ret |-> strlen(c.buf) + 1, buf |-> c.buf]

\* fetchstr(addr, buf, max): the int max becomes copyinstr's unsigned
\* count, so a negative max is a count no copy reaches.
fetchstr(addr, max) ==
  LET c == copyinstr(addr, IntToU64(max))
  IN  IF c.ret < 0 THEN [ret |-> -1, buf |-> c.buf]
                   ELSE [ret |-> strlen(c.buf), buf |-> c.buf]

\* argraw(n) for the process p; no case matches an n outside 0..5, where
\* the code panics.
argraw(p, n) ==
  CASE n = 0 -> trapframe[p].a0
    [] n = 1 -> trapframe[p].a1
    [] n = 2 -> trapframe[p].a2
    [] n = 3 -> trapframe[p].a3
    [] n = 4 -> trapframe[p].a4
    [] n = 5 -> trapframe[p].a5

\* argint(n, ip): *ip = argraw(n), an int.
argint(p, n) == ToInt(argraw(p, n))

\* argaddr(n, ip): *ip = argraw(n), a uint64.
argaddr(p, n) == argraw(p, n)

\* argstr(n, buf, max).
argstr(p, n, max) == fetchstr(argaddr(p, n), max)


\* ------------------------------------------------------------ trace output

\* What printf emits, piece by piece: a run of literal text of the format,
\* or one conversion with the argument it was given.
Lit(s) == [k |-> "lit", s |-> s, v |-> Zero, i |-> 0]
\* %d with an int.
FmtD(i) == [k |-> "%d", s |-> "", v |-> Zero, i |-> i]
\* %lu with a uint64.
FmtLu(v) == [k |-> "%lu", s |-> "", v |-> v, i |-> 0]
\* %p with a pointer.
FmtP(v) == [k |-> "%p", s |-> "", v |-> v, i |-> 0]
\* %s with a string of the kernel.
FmtS(s) == [k |-> "%s", s |-> s, v |-> Zero, i |-> 0]
\* %s with an argument word cast to char*: printf reads memory at v.
FmtSUser(v) == [k |-> "%s@user", s |-> "", v |-> v, i |-> 0]

\* p->pid and p->name of process p.
proc_pid(p) == p
proc_name(p) == "sh"

\* A plausible slip: the mask tested one bit too low.
TraceEnabled_low(mask, n) == (mask \div (2 ^ (n - 1))) % 2 = 1

\* p->trace_mask & (1 << num).
TraceEnabled(mask, n) == (mask \div (2 ^ n)) % 2 = 1

\* A plausible slip: the arguments read from the live registers.
TraceArgs_live(p) == [n \in 1..6 |-> argraw(p, n - 1)]

\* The words the trace line renders: args_list[0..5].
TraceArgs(p) == args_list[p]

\* printf("%d: syscall %s(", p->pid, syscall_names[num - 1]).
TraceHeader(p) ==
  <<FmtD(proc_pid(p)), Lit(": syscall "),
    FmtS(syscall_names[(num[p] - 1) + 1]), Lit("(")>>

\* A plausible slip: the pointer printed after the count.
FmtBufferTriple_swapped(a) ==
  <<FmtLu(a[1]), Lit(", "), FmtLu(a[3]), Lit(", "), FmtP(a[2])>>

\* printf("%lu, %p, %lu", args_list[0], (char*)args_list[1], args_list[2]).
FmtBufferTriple(a) ==
  <<FmtLu(a[1]), Lit(", "), FmtP(a[2]), Lit(", "), FmtLu(a[3])>>

\* The switch on num: the printf calls made between the header and the
\* result, each with the pieces it prints, for the words a (a[1] is
\* args_list[0]).  exec makes two calls, a call without arguments none.
ArgPrintfs(n, a) ==
  CASE n \in {SYS("exit"), SYS("kill"), SYS("dup"), SYS("sbrk"),
              SYS("sleep"), SYS("close"), SYS("trace")} ->
         << <<FmtLu(a[1])>> >>
    [] n \in {SYS("wait"), SYS("pipe")} ->
         << <<FmtP(a[1])>> >>
    [] n \in {SYS("read"), SYS("write")} ->
         << FmtBufferTriple(a) >>
    [] n = SYS("exec") ->
         << IF a[1] = Zero THEN <<Lit("NULL, ")>> ELSE <<FmtP(a[1]), Lit(", ")>>,
            IF a[2] = Zero THEN <<Lit("NULL,")>> ELSE <<FmtP(a[2])>> >>
    [] n = SYS("fstat") ->
         << <<FmtLu(a[1]), Lit(", "), FmtP(a[2])>> >>
    [] n \in {SYS("chdir"), SYS("unlink"), SYS("mkdir")} ->
         << <<FmtSUser(a[1])>> >>
    [] n = SYS("open") ->
         << IF a[1] = Zero THEN <<Lit("NULL, "), FmtLu(a[2])>>
                           ELSE <<FmtP(a[1]), Lit(", "), FmtLu(a[2])>> >>
    [] n = SYS("mknod") ->
         << <<FmtSUser(a[1]), Lit(", "), FmtLu(a[2]), Lit(", "), FmtLu(a[3])>> >>
    [] n = SYS("link") ->
         << <<FmtSUser(a[1]), Lit(", "), FmtSUser(a[2])>> >>
    [] OTHER -> <<>>

\* printf(") -> %d\n", return_val).
TraceTail(rv) == <<Lit(") -> "), FmtD(rv), Lit("\n")>>

\* printf("%d %s: unknown sys call %d\n", p->pid, p->name, num).
UnknownDiagnostic(p, n) ==
  <<FmtD(proc_pid(p)), Lit(" "), FmtS(proc_name(p)),
    Lit(": unknown sys call "), FmtD(n), Lit("\n")>>

\* One printf call of process p: its pieces go to the console together
\* (printf holds the console lock for the length of a call), after all that
\* any processor printed before.
Emit(p, pieces) ==
  console \o [i \in 1..Len(pieces) |-> [by |-> p, t |-> pieces[i]]]

\* ------------------------------------------------------------------ inputs

\* Identifier words a trap may carry in a7: every table index, the first
\* index past the table, and words whose upper bits are not zero.
A7Inputs ==
  {U64(n) : n \in 0..NELEM_syscalls} \cup
  {U64(9999), U64(65537), <<0, 1, 0, 1>>, <<0, 1, 0, 30>>,
   <<0, 0, 32768, 0>>, U64Max}

A0Inputs == {Zero, U64(5), U64(4096)}
A1Inputs == {Zero, U64(8192)}

\* Trace masks: none, all of 1..23, exec only, chdir and trace.
MaskInputs == {0, 16777214, 128, 4194816}

\* What a handler may return: 0, 7, -1, 2^31, 2^32 + 7.
RetInputs == {Zero, U64(7), U64Max, <<0, 0, 32768, 0>>, <<0, 1, 0, 7>>}

\* The word a handler leaves in the argument registers it overwrites.
Clobbered == U64(57005)

\* The smaller inputs of the runs with several processes.
ConcA7Inputs == {U64(SYS("getpid")), U64(SYS("chdir")), U64(9999)}
ConcA0Inputs == {U64(4096)}
ConcA1Inputs == {Zero}
ConcMaskInputs == {0, 16777214}
ConcRetInputs == {Zero, U64Max}

\* Inputs of the marshaling calls.
\* The buffer lengths a caller hands to argstr.
MaxInputs == 0..MaxMax
AddrInputs ==
  {Zero, U64(1), U64(MemLen), U64(MemLen + 8), <<0, 1, 0, 0>>,
   <<65535, 65535, 65535, 65527>>, <<65535, 65535, 65535, 65528>>, U64Max}
SzInputs ==
  {Zero, U64(4), U64(8), U64(16), <<65535, 65535, 65535, 65528>>, U64Max}


\* -------------------------------------------------------------------- Init

NoFrame ==
  [a0 |-> Zero, a1 |-> Zero, a2 |-> Zero, a3 |-> Zero, a4 |-> Zero,
   a5 |-> Zero, a7 |-> Zero]

NoHistory ==
  [entry |-> NoFrame, invoked |-> <<>>, ret |-> Zero, seen0 |-> Zero,
   writes |-> 0, printfs |-> 0, rawderef |-> {}]

NoCall ==
  [fn |-> "none", n |-> 0, addr |-> Zero, max |-> 0, ret |-> 0, int |-> 0,
   copied |-> FALSE, written |-> FALSE, ip |-> Zero, buf |-> <<>>]

InitDispatch ==
  /\ pc = [p \in Procs |-> "user"]
  /\ trace_mask = [p \in Procs |-> 0]
  /\ args_list = [p \in Procs |-> [n \in 1..6 |-> Zero]]
  /\ num = [p \in Procs |-> 0]
  /\ return_val = [p \in Procs |-> 0]
  /\ argcall = [p \in Procs |-> 0]
  /\ console = <<>>
  /\ h = [p \in Procs |-> NoHistory]
  /\ call = NoCall

Init ==
  /\ InitDispatch
  /\ trapframe = [p \in Procs |-> NoFrame]
  /\ usz = U64(MemLen)
  /\ umem = [i \in 1..MemLen |-> 0]

\* ---------------------------------------------------------------- dispatch

\* Trap entry: the user registers of process p are saved, with whatever
\* identifier and argument words the user program chose.
Trap(p, A7s, A0s, A1s, Masks) ==
  /\ pc[p] = "user"
  /\ \E a7 \in A7s, a0 \in A0s, a1 \in A1s, m \in Masks :
       LET tf == [a0 |-> a0, a1 |-> a1, a2 |-> U64(10), a3 |-> U64(33),
                  a4 |-> U64(44), a5 |-> U64(55), a7 |-> a7]
       IN  /\ trapframe' = [trapframe EXCEPT ![p] = tf]
           /\ trace_mask' = [trace_mask EXCEPT ![p] = m]
           /\ h' = [h EXCEPT ![p].entry = tf]
  /\ pc' = [pc EXCEPT ![p] = "entry"]
  /\ UNCHANGED <<args_list, num, return_val, argcall, console, usz, umem, call>>

\* num > 0 && num < NELEM(syscalls) && syscalls[num].
ValidNum(n) == n > 0 /\ n < NELEM_syscalls /\ syscalls[n] # NoHandler

\* syscall(), up to the test of num: args_list and num are read from the
\* trapframe, num through the conversion of a7 to int.
SyscallEntry(p) ==
  /\ pc[p] = "entry"
  /\ ValidNum(ToInt(trapframe[p].a7))
  /\ args_list' = [args_list EXCEPT ![p] = [n \in 1..6 |-> argraw(p, n - 1)]]
  /\ num' = [num EXCEPT ![p] = ToInt(trapframe[p].a7)]
  /\ pc' = [pc EXCEPT ![p] = "invoke"]
  /\ UNCHANGED <<trapframe, trace_mask, return_val, argcall, console, h, usz,
                 umem, call>>

\* syscall() for a num that is not a valid syscall number, up to and
\* including its printf call: the diagnostic.
SyscallUnknown(p) ==
  /\ pc[p] = "entry"
  /\ ~ValidNum(ToInt(trapframe[p].a7))
  /\ args_list' = [args_list EXCEPT ![p] = [n \in 1..6 |-> argraw(p, n - 1)]]
  /\ num' = [num EXCEPT ![p] = ToInt(trapframe[p].a7)]
  /\ console' = Emit(p, UnknownDiagnostic(p, ToInt(trapframe[p].a7)))
  /\ h' = [h EXCEPT ![p].printfs = @ + 1]
  /\ pc' = [pc EXCEPT ![p] = "unknown"]
  /\ UNCHANGED <<trapframe, trace_mask, return_val, argcall, usz, umem, call>>

\* p->trapframe->a0 = -1, once the diagnostic's printf has returned.
WriteUnknown(p) ==
  /\ pc[p] = "unknown"
  /\ trapframe' = [trapframe EXCEPT ![p].a0 = IntToU64(-1)]
  /\ h' = [h EXCEPT ![p].writes = @ + 1]
  /\ pc' = [pc EXCEPT ![p] = "done"]
  /\ UNCHANGED <<trace_mask, args_list, num, return_val, argcall, console, usz,
                 umem, call>>

\* int return_val = syscalls[num](): the handler runs.  It sees the
\* argument registers as they are, returns any of Rets, may overwrite the
\* argument registers, and sys_trace sets the trace mask.
Invoke(p, Rets, Masks) ==
  /\ pc[p] = "invoke"
  /\ \E r \in Rets, clobber \in BOOLEAN,
        m \in (IF syscalls[num[p]] = "sys_trace" THEN Masks
                                                 ELSE {trace_mask[p]}) :
       /\ return_val' = [return_val EXCEPT ![p] = ToInt(r)]
       /\ trace_mask' = [trace_mask EXCEPT ![p] = m]
       /\ trapframe' =
            IF clobber
              THEN [trapframe EXCEPT ![p].a0 = Clobbered, ![p].a1 = Clobbered,
                                     ![p].a2 = Clobbered]
              ELSE trapframe
       /\ h' = [h EXCEPT ![p].invoked = Append(@, syscalls[num[p]]),
                         ![p].ret = r,
                         ![p].seen0 = argraw(p, 0)]
  /\ pc' = [pc EXCEPT ![p] = "trace"]
  /\ UNCHANGED <<args_list, num, argcall, console, usz, umem, call>>

\* The positions of the conversions that read memory at an argument word:
\* printf prints "(null)" for a null %s and reads at any other word.
UserReads(line) ==
  {i \in 1..Len(line) : line[i].k = "%s@user" /\ line[i].v # Zero}

\* if(p->trace_mask & (1 << num)) and, when the bit is set, the first
\* printf call: the header.
MaybeTrace(p) ==
  /\ pc[p] = "trace"
  /\ IF TraceEnabled(trace_mask[p], num[p])
       THEN /\ console' = Emit(p, TraceHeader(p))
            /\ h' = [h EXCEPT ![p].printfs = @ + 1]
            /\ pc' = [pc EXCEPT ![p] = "args"]
       ELSE /\ pc' = [pc EXCEPT ![p] = "write"]
            /\ UNCHANGED <<console, h>>
  /\ argcall' = [argcall EXCEPT ![p] = 0]
  /\ UNCHANGED <<trapframe, trace_mask, args_list, num, return_val, usz, umem, call>>

\* The next printf call of the switch on num.  A %s given an argument word
\* reads kernel memory at that word, unchecked: either the read faults and
\* the kernel panics there, with the pieces before it printed, or it prints
\* what it finds.
TraceArguments(p) ==
  /\ pc[p] = "args"
  /\ argcall[p] < Len(ArgPrintfs(num[p], TraceArgs(p)))
  /\ LET pieces == ArgPrintfs(num[p], TraceArgs(p))[argcall[p] + 1]
     IN  \/ /\ console' = Emit(p, pieces)
            /\ h' = [h EXCEPT
                       ![p].printfs = @ + 1,
                       ![p].rawderef =
                          @ \cup {pieces[i].v : i \in UserReads(pieces)}]
            /\ argcall' = [argcall EXCEPT ![p] = @ + 1]
            /\ pc' = pc
         \/ \E f \in UserReads(pieces) :
              /\ console' = Emit(p, SubSeq(pieces, 1, f - 1))
              /\ h' = [h EXCEPT
                         ![p].printfs = @ + 1,
                         ![p].rawderef =
                            @ \cup {pieces[i].v :
                                      i \in {j \in UserReads(pieces) : j <= f}}]
              /\ argcall' = argcall
              /\ pc' = [pc EXCEPT ![p] = "panic"]
  /\ UNCHANGED <<trapframe, trace_mask, args_list, num, return_val, usz, umem, call>>

\* The last printf call of the trace: the result.
TraceResult(p) ==
  /\ pc[p] = "args"
  /\ argcall[p] = Len(ArgPrintfs(num[p], TraceArgs(p)))
  /\ console' = Emit(p, TraceTail(return_val[p]))
  /\ h' = [h EXCEPT ![p].printfs = @ + 1]
  /\ pc' = [pc EXCEPT ![p] = "write"]
  /\ UNCHANGED <<trapframe, trace_mask, args_list, num, return_val, argcall, usz,
                 umem, call>>

\* p->trapframe->a0 = return_val.
WriteResult(p) ==
  /\ pc[p] = "write"
  /\ trapframe' = [trapframe EXCEPT ![p].a0 = IntToU64(return_val[p])]
  /\ h' = [h EXCEPT ![p].writes = @ + 1]
  /\ pc' = [pc EXCEPT ![p] = "done"]
  /\ UNCHANGED <<trace_mask, args_list, num, return_val, argcall, console, usz,
                 umem, call>>

\* One trapped process, with the full range of inputs.
Next ==
  \E p \in {1} :
    \/ Trap(p, A7Inputs, A0Inputs, A1Inputs, MaskInputs)
    \/ SyscallEntry(p)
    \/ SyscallUnknown(p)
    \/ WriteUnknown(p)
    \/ Invoke(p, RetInputs, MaskInputs)
    \/ MaybeTrace(p)
    \/ TraceArguments(p)
    \/ TraceResult(p)
    \/ WriteResult(p)

Spec == Init /\ [][Next]_vars

\* One step of the dispatch of p, in the runs with several processes.
ConcStep(p) ==
  \/ Trap(p, ConcA7Inputs, ConcA0Inputs, ConcA1Inputs, ConcMaskInputs)
  \/ SyscallEntry(p)
  \/ SyscallUnknown(p)
  \/ WriteUnknown(p)
  \/ Invoke(p, ConcRetInputs, ConcMaskInputs)
  \/ MaybeTrace(p)
  \/ TraceArguments(p)
  \/ TraceResult(p)
  \/ WriteResult(p)

\* Several processes trapped at once, each dispatch running on its own
\* processor, their steps interleaved.
NextConc == \E p \in Procs : ConcStep(p)

SpecConc == Init /\ [][NextConc]_vars

\* ------------------------------------------------- marshaling calls

\* The process whose handler makes the marshaling calls.
Caller == 1

\* Its argument registers hold addresses inside, at the end of, just past
\* and far outside the mapped memory; p->sz and the memory's bytes vary.
InitMarshal ==
  /\ InitDispatch
  /\ trapframe = [p \in Procs |->
       [a0 |-> Zero, a1 |-> U64(MemLen - MaxMax), a2 |-> U64(MemLen - 1),
        a3 |-> U64(MemLen), a4 |-> U64Max, a5 |-> <<0, 1, 0, 0>>,
        a7 |-> Zero]]
  /\ usz \in SzInputs
  /\ umem \in [1..MemLen -> {0, 97}]

CallFetchaddr ==
  /\ call.fn = "none"
  /\ \E addr \in AddrInputs :
       LET r == fetchaddr(addr)
       IN  call' = [NoCall EXCEPT !.fn = "fetchaddr", !.addr = addr,
                      !.ret = r.ret, !.copied = r.copied,
                      !.written = r.written, !.ip = r.ip]
  /\ UNCHANGED <<dispatch_vars, trapframe, usz, umem>>

CallArgstr ==
  /\ call.fn = "none"
  /\ \E n \in 0..5, max \in MaxInputs :
       LET r == argstr(Caller, n, max)
       IN  call' = [NoCall EXCEPT !.fn = "argstr", !.n = n,
                      !.addr = argraw(Caller, n), !.max = max,
                      !.ret = r.ret, !.buf = r.buf]
  /\ UNCHANGED <<dispatch_vars, trapframe, usz, umem>>

CallArgint ==
  /\ call.fn = "none"
  /\ \E n \in 0..5 :
       call' = [NoCall EXCEPT !.fn = "argint", !.n = n,
                  !.int = argint(Caller, n)]
  /\ UNCHANGED <<dispatch_vars, trapframe, usz, umem>>

CallArgaddr ==
  /\ call.fn = "none"
  /\ \E n \in 0..5 :
       call' = [NoCall EXCEPT !.fn = "argaddr", !.n = n,
                  !.ip = argaddr(Caller, n)]
  /\ UNCHANGED <<dispatch_vars, trapframe, usz, umem>>

\* The call returns to the handler that made it; the helpers keep nothing
\* from one call to the next.
CallReturn ==
  /\ call.fn # "none"
  /\ call' = NoCall
  /\ UNCHANGED <<dispatch_vars, trapframe, usz, umem>>

NextMarshal ==
  CallFetchaddr \/ CallArgstr \/ CallArgint \/ CallArgaddr \/ CallReturn

SpecMarshal == InitMarshal /\ [][NextMarshal]_vars


\* ------------------------------------------------------------------ claims

\* The 64-bit identifier word x names a registered call: it is one of
\* 1 .. N and its table slot is not empty.
Registered64(x) ==
  /\ x[1] = 0 /\ x[2] = 0 /\ x[3] = 0
  /\ x[4] \in 1..(NELEM_syscalls - 1)
  /\ syscalls[x[4]] # NoHandler

\* The 64-bit identifier word x is <= 0 (as a signed value), or >= the
\* table size, or names an empty slot.
Invalid64(x) ==
  \/ x = Zero
  \/ U64Le(U64(NELEM_syscalls), x)
  \/ (x[1] = 0 /\ x[2] = 0 /\ x[3] = 0 /\ x[4] < NELEM_syscalls
      /\ syscalls[x[4]] = NoHandler)

\* The display name registered with each handler.
DisplayName(handler) ==
  CASE handler = "sys_fork" -> "fork"       [] handler = "sys_exit" -> "exit"
    [] handler = "sys_wait" -> "wait"       [] handler = "sys_pipe" -> "pipe"
    [] handler = "sys_read" -> "read"       [] handler = "sys_kill" -> "kill"
    [] handler = "sys_exec" -> "exec"       [] handler = "sys_fstat" -> "fstat"
    [] handler = "sys_chdir" -> "chdir"     [] handler = "sys_dup" -> "dup"
    [] handler = "sys_getpid" -> "getpid"   [] handler = "sys_sbrk" -> "sbrk"
    [] handler = "sys_sleep" -> "sleep"     [] handler = "sys_uptime" -> "uptime"
    [] handler = "sys_open" -> "open"       [] handler = "sys_write" -> "write"
    [] handler = "sys_mknod" -> "mknod"     [] handler = "sys_unlink" -> "unlink"
    [] handler = "sys_link" -> "link"       [] handler = "sys_mkdir" -> "mkdir"
    [] handler = "sys_close" -> "close"     [] handler = "sys_trace" -> "trace"
    [] handler = "sys_sysinfo" -> "sysinfo"

\* What process p has printed, in order.
Out(p) ==
  LET own == SelectSeq(console, LAMBDA e : e.by = p)
  IN  [i \in 1..Len(own) |-> own[i].t]

\* The dispatch of p went down the valid path and is past its trace step.
Traced(p) == pc[p] \in {"write", "done"} /\ Len(h[p].invoked) = 1

\* The dispatch of p has emitted a whole trace line.
HasLine(p) == Traced(p) /\ Out(p) # <<>>

\* What that line prints between "(" and ") -> ".
LineArgs(p) == SubSeq(Out(p), 5, Len(Out(p)) - 3)

\* C1: for every registered identifier and every 64-bit value the handler
\* returns, a finished dispatch has invoked exactly that identifier's handler,
\* once, and a0 holds the handler's return value bit for bit.
C1_ReturnValueVerbatim ==
  \A p \in Procs :
    (pc[p] = "done" /\ Registered64(h[p].entry.a7)) =>
      /\ h[p].invoked = <<syscalls[h[p].entry.a7[4]]>>
      /\ trapframe[p].a0 = h[p].ret

\* C2: for every 64-bit identifier word that is <= 0, >= the table size or
\* names an empty slot, a finished dispatch has invoked no handler, has
\* emitted exactly the unknown-identifier diagnostic with the pid, the
\* process name and the identifier, no trace line, and a0 is -1.
C2_UnknownIdentifier ==
  \A p \in Procs :
    (pc[p] = "done" /\ Invalid64(h[p].entry.a7)) =>
      /\ h[p].invoked = <<>>
      /\ trapframe[p].a0 = U64Max
      /\ h[p].printfs = 1
      /\ Len(Out(p)) = 6
      /\ Out(p)[1] = FmtD(proc_pid(p))
      /\ Out(p)[3] = FmtS(proc_name(p))
      /\ Out(p)[4] = Lit(": unknown sys call ")
      /\ Out(p)[5].k = "%d"

\* C3: fetchaddr returns -1 without calling copyin and without writing *ip
\* whenever addr >= the size bound or addr + 8 wraps around, for every
\* 64-bit addr and bound; it returns 0 only when addr < bound, addr + 8 does
\* not wrap, addr + 8 <= bound and the copy was made.
C3_FetchaddrBounds ==
  call.fn = "fetchaddr" =>
    LET wraps == U64Lt(<<65535, 65535, 65535, 65527>>, call.addr)
    IN  /\ (U64Le(usz, call.addr) \/ wraps) =>
             (call.ret = -1 /\ ~call.copied /\ ~call.written)
        /\ call.ret = 0 =>
             /\ U64Lt(call.addr, usz)
             /\ ~wraps
             /\ U64Le(U64Add(call.addr, 8), usz)
             /\ call.copied


\* Bit n of the mask m.
BitSet(m, n) == (m \div (2 ^ n)) % 2 = 1

\* C4: a dispatch of a registered identifier num that is past its trace
\* step has emitted exactly one trace line if bit num of the trace mask is
\* set and nothing if it is clear; the line comes after the handler has
\* returned, starts with the pid and the display name registered for num,
\* and ends with a result equal to the value the dispatch writes into a0.
C4_TraceLineGated ==
  \A p \in Procs :
    /\ (Traced(p) /\ Registered64(h[p].entry.a7)) =>
         LET n == h[p].entry.a7[4]
             line == Out(p)
         IN  IF BitSet(trace_mask[p], n)
               THEN /\ Len(line) >= 7
                    /\ line[1] = FmtD(proc_pid(p))
                    /\ line[2] = Lit(": syscall ")
                    /\ line[3] = FmtS(DisplayName(syscalls[n]))
                    /\ line[4] = Lit("(")
                    /\ line[Len(line) - 2] = Lit(") -> ")
                    /\ line[Len(line) - 1].k = "%d"
                    /\ line[Len(line)] = Lit("\n")
                    /\ \A i \in 1..(Len(line) - 1) : line[i] # Lit("\n")
                    /\ h[p].invoked = <<syscalls[n]>>
                    /\ pc[p] = "done" =>
                         trapframe[p].a0 = IntToU64(line[Len(line) - 1].i)
               ELSE line = <<>>
    /\ (pc[p] \in {"entry", "invoke", "trace"}) => Out(p) = <<>>

\* C4 witness: a finished dispatch of exec under a mask with only the exec
\* bit set, its line ending in the handler's -1.
C4_Witness ==
  \E p \in Procs :
    /\ pc[p] = "done" /\ h[p].invoked = <<"sys_exec">>
    /\ trace_mask[p] = 128
    /\ Len(Out(p)) >= 7
    /\ Out(p)[Len(Out(p)) - 1] = FmtD(-1)
    /\ trapframe[p].a0 = U64Max

\* How a piece of the line reads: an argument ("NULL", an address, an
\* integer, a path string) or the separator text around it.
Pieces(t) ==
  CASE t.k = "lit" /\ t.s = "NULL, " -> <<"NULL", ", ">>
    [] t.k = "lit" /\ t.s = "NULL,"  -> <<"NULL", ",">>
    [] t.k = "lit" /\ t.s = "NULL"   -> <<"NULL">>
    [] t.k = "lit"                   -> <<t.s>>
    [] t.k = "%p"                    -> <<"address">>
    [] t.k = "%lu"                   -> <<"integer">>
    [] t.k = "%s@user"               -> <<"path">>
    [] OTHER                         -> <<t.k>>

RECURSIVE Flat(_)
Flat(line) == IF line = <<>> THEN <<>> ELSE Pieces(Head(line)) \o Flat(Tail(line))

\* How a nullable address reads.
Nullable(w) == IF w = Zero THEN "NULL" ELSE "address"

\* C5: in a trace line, wait and pipe render a zero word 0 as "NULL", and
\* exec renders each of word 0 and word 1 as "NULL" when zero and as an
\* address otherwise, with the same separator in all four combinations.
C5_NullablePointers ==
  \A p \in Procs :
    HasLine(p) =>
      LET e == h[p].entry
          who == h[p].invoked[1]
      IN  /\ who \in {"sys_wait", "sys_pipe"} =>
                Flat(LineArgs(p)) = <<Nullable(e.a0)>>
          /\ who = "sys_exec" =>
                Flat(LineArgs(p)) = <<Nullable(e.a0), ", ", Nullable(e.a1)>>

\* The kinds of the arguments of a line, in order, separators left out.
IsArgument(x) == x \in {"NULL", "address", "integer", "path"}
Kind(x) == IF x = "NULL" THEN "address" ELSE x
Shape(line) ==
  LET args == SelectSeq(Flat(line), IsArgument)
  IN  [i \in 1..Len(args) |-> Kind(args[i])]

\* The nine rendering categories of the trace formatter's table.
NineShapes ==
  { <<>>, <<"integer">>, <<"address">>, <<"integer", "address", "integer">>,
    <<"address", "address">>, <<"path">>, <<"path", "integer">>,
    <<"path", "integer", "integer">>, <<"path", "path">> }

PathFirst ==
  {"sys_chdir", "sys_unlink", "sys_mkdir", "sys_open", "sys_mknod", "sys_link"}

\* C6, as stated: every trace line's arguments have the shape of one of the
\* nine categories, and a call whose first argument is a path (chdir,
\* unlink, mkdir, open, mknod, link) renders word 0 as a path string.
C6_NineCategories ==
  \A p \in Procs :
    HasLine(p) =>
      /\ Shape(LineArgs(p)) \in NineShapes
      /\ h[p].invoked[1] \in PathFirst =>
           (Shape(LineArgs(p)) # <<>> /\ Shape(LineArgs(p))[1] = "path")

\* The category of each call, by the handler the identifier selects.
ShapeOfCall(who) ==
  CASE who \in {"sys_fork", "sys_getpid", "sys_uptime", "sys_sysinfo"} -> <<>>
    [] who \in {"sys_exit", "sys_kill", "sys_dup", "sys_sbrk", "sys_sleep",
                "sys_close", "sys_trace"} -> <<"integer">>
    [] who \in {"sys_wait", "sys_pipe"} -> <<"address">>
    [] who \in {"sys_read", "sys_write"} -> <<"integer", "address", "integer">>
    [] who = "sys_exec" -> <<"address", "address">>
    [] who = "sys_fstat" -> <<"integer", "address">>
    [] who = "sys_open" -> <<"address", "integer">>
    [] who \in {"sys_chdir", "sys_unlink", "sys_mkdir"} -> <<"path">>
    [] who = "sys_mknod" -> <<"path", "integer", "integer">>
    [] who = "sys_link" -> <<"path", "path">>

\* C6, amended: every trace line's arguments have the shape of one of ten
\* categories (the table's nine without path-plus-integer, which no call
\* uses, with integer-plus-address for fstat and address-plus-integer for
\* open); the category depends only on the identifier; chdir, unlink,
\* mkdir, mknod and link render word 0 as a path string and open renders it
\* as a nullable address.
C6_TenCategories ==
  \A p \in Procs :
    HasLine(p) => Shape(LineArgs(p)) = ShapeOfCall(h[p].invoked[1])

\* C6 witness: a whole trace line of open, and it shows an address first.
C6_Witness ==
  \E p \in Procs :
    /\ HasLine(p) /\ h[p].invoked = <<"sys_open">>
    /\ Shape(LineArgs(p)) = <<"address", "integer">>
    /\ h[p].entry.a0 # Zero

\* The word w is no valid user address of the process: null, at or past
\* p->sz, or not mapped.
InvalidUserAddr(w) == w = Zero \/ U64Le(usz, w) \/ ~Mapped(w)

\* C7: tracing a call whose rendering reads a path string at an argument
\* word never reads memory through a word that is no valid user address,
\* so no such read can fault and leave the dispatch in a panic.
C7_TraceNeverFaults ==
  \A p \in Procs :
    \A w \in h[p].rawderef : ~InvalidUserAddr(w)


\* The lengths at which the string at word a ends within max bytes: every
\* byte up to the NUL is mapped, and no byte before it is NUL.
NulWithin(a, max) ==
  {i \in 0..(max - 1) :
     /\ a[1] = 0 /\ a[2] = 0 /\ a[3] = 0
     /\ a[4] + i < Len(umem)
     /\ umem[a[4] + i + 1] = 0
     /\ \A j \in 0..(i - 1) : umem[a[4] + j + 1] # 0}

\* The raw word in argument slot n of the calling process.
SlotWord(n) ==
  LET tf == trapframe[Caller]
  IN  <<tf.a0, tf.a1, tf.a2, tf.a3, tf.a4, tf.a5>>[n + 1]

\* C8: argstr(n, buf, max) returns what fetchstr returns for the raw word
\* in slot n: -1 whenever no NUL lies within the first max bytes at that
\* address or the copy faults, otherwise the string's length without its
\* NUL (a value in 0..max-1); it never stores more than max bytes.
C8_ArgstrLength ==
  call.fn = "argstr" =>
    LET ends == NulWithin(SlotWord(call.n), call.max)
    IN  /\ call.addr = SlotWord(call.n)
        /\ ends = {} => call.ret = -1
        /\ ends # {} => (call.ret \in ends /\ call.ret \in 0..(call.max - 1)
                         /\ Len(call.buf) = call.ret + 1)
        /\ Len(call.buf) <= call.max

\* C8 witness: argstr fetched a string of two bytes and its NUL.
C8_Witness == call.fn = "argstr" /\ call.ret = 2 /\ call.buf = <<97, 97, 0>>

\* The argument-slot values at trap entry.
EntryWords(p) ==
  LET e == h[p].entry IN {e.a0, e.a1, e.a2, e.a3, e.a4, e.a5}

\* C9: every argument word a trace line shows is a value the argument slots
\* held at trap entry, also when the handler overwrote the slots, and the
\* handler saw slot 0 still holding the caller's first argument.
C9_EntryWordsTraced ==
  \A p \in Procs :
    /\ \A i \in 1..Len(Out(p)) :
         Out(p)[i].k \in {"%lu", "%p", "%s@user"} =>
           Out(p)[i].v \in EntryWords(p)
    /\ Len(h[p].invoked) = 1 => h[p].seen0 = h[p].entry.a0
    /\ HasLine(p) =>
         LET shown == SelectSeq(LineArgs(p), LAMBDA t : t.k # "lit")
         IN  shown # <<>> => shown[1].v \in {h[p].entry.a0, h[p].entry.a1}

\* C9 witness: the handler overwrote the argument registers, and the line
\* of a read shows the three words of trap entry.
C9_Witness ==
  \E p \in Procs :
    /\ HasLine(p) /\ h[p].invoked = <<"sys_read">>
    /\ h[p].entry.a0 = U64(5)
    /\ LineArgs(p) = <<FmtLu(U64(5)), Lit(", "), FmtP(h[p].entry.a1),
                       Lit(", "), FmtLu(U64(10))>>
    /\ trapframe[p].a1 = Clobbered

\* What the dispatch of p leaves in a0 when it runs alone.
ResultAlone(p) ==
  IF ValidNum(ToInt(h[p].entry.a7)) THEN IntToU64(ToInt(h[p].ret)) ELSE U64Max

\* C10: under any interleaving, every dispatch runs to its end (it has
\* finished or can take its next step), a finished dispatch has written its
\* own a0 exactly once and left there the result it would leave alone, and
\* the registers and output of a process that has not trapped are untouched.
C10_EveryDispatchCompletes ==
  \A p \in Procs :
    /\ pc[p] = "done" \/ ENABLED ConcStep(p)
    /\ pc[p] = "done" => (h[p].writes = 1 /\ trapframe[p].a0 = ResultAlone(p))
    /\ pc[p] # "done" => h[p].writes = 0
    /\ pc[p] = "user" => (trapframe[p] = NoFrame /\ Out(p) = <<>>)


====
